---- MODULE Spec2Model ----
(***************************************************************************)
(* H.265 Annex-B start-code scanner and RTP payload packetizer             *)
(* (modules/avcodec/h265.c).                                               *)
(*                                                                         *)
(* A buffer is a sequence of bytes; a C pointer into it is the 0-based     *)
(* byte offset from the buffer's first byte, so `end` is Len(buf).         *)
(* Pointers are compared as flat addresses: `end - 3` of a buffer shorter  *)
(* than 3 bytes is a negative offset (the buffer does not sit at address   *)
(* 0..5).  `align` is the address of the buffer's first byte modulo 4.     *)
(***************************************************************************)
EXTENDS Integers, Sequences, FiniteSets, TLC

VARIABLES
    buf,        \* the caller's buffer (bytes 0..255)
    align,      \* address of buf[0] modulo 4
    pktsize,    \* h265_packetize: pktsize
    pc,         \* control position
    r,          \* h265_packetize: r
    r1,         \* h265_packetize: r1
    marker,     \* h265_packetize: marker
    err,        \* h265_packetize: err
    pbuf,       \* packetize: buf (offset into the buffer)
    plen,       \* packetize: len
    fu_hdr,     \* packetize: fu_hdr[3]
    sent,       \* the calls made to pkth so far, in order
    units,      \* the (offset, length) handed to packetize so far, in order
    dfailed,    \* indexes (into units) of the units h265_nal_decode failed on
    anyfail,    \* some pkth call returned non-zero
    perr,       \* packetize: err
    oob,        \* a byte outside [0, end) was read
    scanpos,    \* scanner harness: start position handed to the scanner
    scanret,    \* scanner harness: position returned
    scanreads,  \* scanner harness: offsets the scanner read
    skp,        \* h265_skip_startcode harness: *p (offset) after the call
    skn0,       \* h265_skip_startcode harness: *n before the call
    skn,        \* h265_skip_startcode harness: *n after the call
    have,       \* h265_have_startcode harness: the value returned
    ktype,      \* h265_is_keyframe harness: type
    iskey       \* h265_is_keyframe harness: the value returned

vars == <<buf, align, pktsize, pc, r, r1, marker, err, pbuf, plen, fu_hdr,
          sent, units, dfailed, anyfail, perr, oob, scanpos, scanret, scanreads,
          skp, skn0, skn, have, ktype, iskey>>

helpervars == <<skp, skn0, skn, have, ktype, iskey>>

\* the helper harnesses are idle
HelpersIdle ==
    skp = 0 /\ skn0 = 0 /\ skn = 0 /\ have = FALSE /\ ktype = 0 /\ iskey = FALSE

-----------------------------------------------------------------------------
(* Bounds of the model *)

MaxLen == 7         \* exhaustive packetizer buffers: every length up to this
MaxUnits == 3       \* structured packetizer buffers: number of units
MaxPktSize == 5     \* small packet sizes are 4..MaxPktSize
MaxScanLen == 8     \* scanner harness: every buffer length up to this
MaxScanPos == 1     \* scanner harness: start positions 0..MaxScanPos
MaxLongLen == 12    \* scanner harness: sparse buffers of length 10..MaxLongLen
MaxSkipLen == 5     \* skip harness: every buffer length up to this
MaxLiveLen == 4     \* termination: every buffer length up to this
MaxLiveUnits == 2   \* termination: structured buffers of up to this many units
MaxKeyType == 70    \* keyframe harness: types -MaxKeyType..MaxKeyType

-----------------------------------------------------------------------------
(* Helpers *)

SetMin(S) == CHOOSE x \in S : \A y \in S : x <= y

Max2(a, b) == IF a >= b THEN a ELSE b

Min2(a, b) == IF a <= b THEN a ELSE b

\* *(p): the byte at offset i.  Outside [0, end) the read is out of bounds;
\* no reachable state evaluates that branch (see the read-set invariants).
Byte(b, i) == IF i >= 0 /\ i < Len(b) THEN b[i + 1] ELSE 255

RECURSIVE BitOr(_, _)
BitOr(a, b) ==
    IF a = 0 THEN b
    ELSE IF b = 0 THEN a
    ELSE (IF (a % 2 = 1) \/ (b % 2 = 1) THEN 1 ELSE 0) + 2 * BitOr(a \div 2, b \div 2)

RECURSIVE BitAnd(_, _)
BitAnd(a, b) ==
    IF a = 0 \/ b = 0 THEN 0
    ELSE (IF (a % 2 = 1) /\ (b % 2 = 1) THEN 1 ELSE 0) + 2 * BitAnd(a \div 2, b \div 2)

-----------------------------------------------------------------------------
(* h265_find_startcode *)

\* p[0] == 0 && p[1] == 0 && p[2] == 1
Match3(b, p) == Byte(b, p) = 0 /\ Byte(b, p + 1) = 0 /\ Byte(b, p + 2) = 1

\* the offsets that test reads (&& stops at the first false operand)
Match3Reads(b, p) ==
    {p} \cup (IF Byte(b, p) = 0
              THEN {p + 1} \cup (IF Byte(b, p + 1) = 0 THEN {p + 2} ELSE {})
              ELSE {})

\* The four bytes of the word loaded at p, least significant first.
WordBytes(b, p, bigendian) ==
    IF bigendian
    THEN <<Byte(b, p + 3), Byte(b, p + 2), Byte(b, p + 1), Byte(b, p)>>
    ELSE <<Byte(b, p), Byte(b, p + 1), Byte(b, p + 2), Byte(b, p + 3)>>

\* (x - 0x01010101) & (~x) & 0x80808080, computed byte by byte with the
\* borrow of the 32-bit subtraction; TRUE iff the result is non-zero.
ZeroByteTest(w) ==
    LET d1 == w[1] - 1
        c1 == IF d1 < 0 THEN 1 ELSE 0
        d2 == w[2] - 1 - c1
        c2 == IF d2 < 0 THEN 1 ELSE 0
        d3 == w[3] - 1 - c2
        c3 == IF d3 < 0 THEN 1 ELSE 0
        d4 == w[4] - 1 - c3
        \* bit 7 of (d & ~x): the only bit the mask 0x80 keeps
        Hit(d, x) == ((d % 256) \div 128) % 2 = 1 /\ ((255 - x) \div 128) % 2 = 1
    IN  Hit(d1, w[1]) \/ Hit(d2, w[2]) \/ Hit(d3, w[3]) \/ Hit(d4, w[4])

\* faulty variant: the probe of sub-position 3 (p[4] == 0 && p[5] == 1) is missing
WordProbe_NoFourthProbe(b, p, bigendian) ==
    IF ~ZeroByteTest(WordBytes(b, p, bigendian)) THEN -1
    ELSE IF Byte(b, p + 1) = 0 /\ Byte(b, p) = 0 /\ Byte(b, p + 2) = 1 THEN p
    ELSE IF Byte(b, p + 1) = 0 /\ Byte(b, p + 2) = 0 /\ Byte(b, p + 3) = 1 THEN p + 1
    ELSE IF Byte(b, p + 3) = 0 /\ Byte(b, p + 2) = 0 /\ Byte(b, p + 4) = 1 THEN p + 2
    ELSE -1

\* One iteration of the word loop at p: the position returned, or -1 when
\* the iteration returns nothing.
WordProbe(b, p, bigendian) ==
    IF ~ZeroByteTest(WordBytes(b, p, bigendian)) THEN -1
    ELSE IF Byte(b, p + 1) = 0 /\ Byte(b, p) = 0 /\ Byte(b, p + 2) = 1 THEN p
    ELSE IF Byte(b, p + 1) = 0 /\ Byte(b, p + 2) = 0 /\ Byte(b, p + 3) = 1 THEN p + 1
    ELSE IF Byte(b, p + 3) = 0 /\ Byte(b, p + 2) = 0 /\ Byte(b, p + 4) = 1 THEN p + 2
    ELSE IF Byte(b, p + 3) = 0 /\ Byte(b, p + 4) = 0 /\ Byte(b, p + 5) = 1 THEN p + 3
    ELSE -1

\* the offsets one iteration of the word loop reads
WordProbeReads(b, p, bigendian) ==
    LET first == Byte(b, p + 1) = 0 /\
                 (   (Byte(b, p) = 0 /\ Byte(b, p + 2) = 1)
                  \/ (Byte(b, p + 2) = 0 /\ Byte(b, p + 3) = 1))
        second == ZeroByteTest(WordBytes(b, p, bigendian)) /\ ~first /\ Byte(b, p + 3) = 0
        third == second /\ ~(Byte(b, p + 2) = 0 /\ Byte(b, p + 4) = 1)
    IN  (p .. p + 3)
        \cup (IF second /\ Byte(b, p + 2) = 0 THEN {p + 4} ELSE {})
        \cup (IF third THEN {p + 4} ELSE {})
        \cup (IF third /\ Byte(b, p + 4) = 0 THEN {p + 5} ELSE {})

\* a = p + 4 - ((long)p & 3)
AlignUp(p, al) == p + 4 - ((al + p) % 4)

\* end after the first loop's end -= 3
ScanEnd1(b) == Len(b) - 3

\* faulty variant: the second loop's end -= 3 is missing
ScanEnd2_NoDecrement(b) == ScanEnd1(b)

\* end after the second loop's end -= 3
ScanEnd2(b) == ScanEnd1(b) - 3

\* end after the third loop's end += 3
ScanEnd3(b) == ScanEnd2(b) + 3

\* first loop: p runs while p < a && p < end
Phase1Stop(b, p, al) == Max2(p, Min2(AlignUp(p, al), ScanEnd1(b)))

Phase1Hits(b, p, al) == {q \in p .. (Phase1Stop(b, p, al) - 1) : Match3(b, q)}

\* second loop: p runs from where the first loop stopped, in steps of 4,
\* while p < end
Phase2Iter(b, p, al) ==
    LET p1 == Phase1Stop(b, p, al)
    IN  {q \in p1 .. (ScanEnd2(b) - 1) : (q - p1) % 4 = 0}

Phase2Stop(b, p, al) ==
    LET p1 == Phase1Stop(b, p, al)
        it == Phase2Iter(b, p, al)
    IN  IF it = {} THEN p1 ELSE p1 + 4 * Cardinality(it)

Phase2Hits(b, p, al, bigendian) ==
    {q \in Phase2Iter(b, p, al) : WordProbe(b, q, bigendian) # -1}

\* third loop: p runs from where the second loop stopped while p < end
Phase3Hits(b, p, al) ==
    {q \in Phase2Stop(b, p, al) .. (ScanEnd3(b) - 1) : Match3(b, q)}

h265_find_startcode(b, p, al, bigendian) ==
    LET h1 == Phase1Hits(b, p, al)
        h2 == Phase2Hits(b, p, al, bigendian)
        h3 == Phase3Hits(b, p, al)
    IN  IF h1 # {} THEN SetMin(h1)
        ELSE IF h2 # {} THEN CHOOSE ret \in {WordProbe(b, q, bigendian) : q \in {SetMin(h2)}} : TRUE
        ELSE IF h3 # {} THEN SetMin(h3)
        ELSE ScanEnd3(b) + 3

\* every offset the call reads: each loop's iterations up to the returning one
find_startcode_reads(b, p, al, bigendian) ==
    LET h1 == Phase1Hits(b, p, al)
        h2 == Phase2Hits(b, p, al, bigendian)
        h3 == Phase3Hits(b, p, al)
        rd1(last) == UNION {Match3Reads(b, q) : q \in p .. last}
        rd2(last) == UNION {WordProbeReads(b, q, bigendian) :
                              q \in {x \in Phase2Iter(b, p, al) : x <= last}}
        rd3(last) == UNION {Match3Reads(b, q) : q \in Phase2Stop(b, p, al) .. last}
    IN  IF h1 # {} THEN rd1(SetMin(h1))
        ELSE rd1(Phase1Stop(b, p, al) - 1) \cup
             (IF h2 # {} THEN rd2(SetMin(h2))
              ELSE rd2(ScanEnd2(b)) \cup
                   (IF h3 # {} THEN rd3(SetMin(h3)) ELSE rd3(ScanEnd3(b) - 1)))

-----------------------------------------------------------------------------
(* Scanner harness: one call of h265_find_startcode on an arbitrary buffer *)

ScanBytes == {0, 1, 170}

SeqsUpTo(S, n) == UNION {[1 .. k -> S] : k \in 0 .. n}

Fill(n) == [i \in 1 .. n |-> 170]

\* b with pat written over it at offset k
Overlay(b, k, pat) ==
    [i \in 1 .. Len(b) |-> IF i > k /\ i <= k + Len(pat) THEN pat[i - k] ELSE b[i]]

ScanPatterns == {<<0, 0, 1>>, <<0, 0, 0, 1>>, <<0, 0>>, <<0, 1>>, <<0>>, <<1>>}

\* buffers of several words: a filler with one pattern and, possibly, one
\* more zero byte somewhere
LongScanBufs ==
    UNION {UNION {UNION {
        {Overlay(Fill(n), k, pat)} \cup
        {Overlay(Overlay(Fill(n), j, <<0>>), k, pat) : j \in 0 .. n - 1}
        : k \in 0 .. n - Len(pat)} : pat \in ScanPatterns} : n \in 10 .. MaxLongLen}

ScanBufs == SeqsUpTo(ScanBytes, MaxScanLen) \cup LongScanBufs

InitScan ==
    /\ buf \in ScanBufs
    /\ align \in 0 .. 3
    /\ scanpos \in 0 .. Min2(MaxScanPos, Len(buf))
    /\ pc = "scan"
    /\ scanret = -1
    /\ scanreads = {}
    /\ pktsize = 0 /\ r = 0 /\ r1 = 0 /\ marker = FALSE /\ err = 0
    /\ pbuf = 0 /\ plen = 0 /\ fu_hdr = <<0, 0, 0>>
    /\ sent = <<>> /\ units = <<>> /\ dfailed = {} /\ anyfail = FALSE
    /\ perr = 0 /\ oob = FALSE
    /\ HelpersIdle

scan_call ==
    /\ pc = "scan"
    /\ \E bigendian \in BOOLEAN :
         /\ scanret' = h265_find_startcode(buf, scanpos, align, bigendian)
         /\ scanreads' = find_startcode_reads(buf, scanpos, align, bigendian)
    /\ pc' = "scanned"
    /\ UNCHANGED <<buf, align, pktsize, r, r1, marker, err, pbuf, plen, fu_hdr,
                   sent, units, dfailed, anyfail, perr, oob, scanpos, helpervars>>

NextScan == scan_call

SpecScan == InitScan /\ [][NextScan]_vars

-----------------------------------------------------------------------------
(* Unit header codec (h265_nal_decode, h265_nal_encode) and its constants *)

H265_NAL_FU == 49

\* h265_nal_decode: nal_unit_type and nuh_temporal_id_plus1 of a 2-byte header
nal_unit_type(b0) == (b0 \div 2) % 64

nuh_temporal_id_plus1(b1) == b1 % 8

\* the results h265_nal_decode can report: 0, or an error
DecodeErrs == {0, 74}

\* h265_nal_encode: the 2 header bytes for (type, temporal id plus 1)
h265_nal_encode(type, tid) == <<(type % 64) * 2, tid % 8>>

\* the results the caller's packet handler can report
SinkRets == {0, 5}

-----------------------------------------------------------------------------
(* Inputs of h265_packetize *)

PktBytes == {0, 1, 170}

UnitBodies ==
    { <<38, 1>>,
      <<66, 2, 17, 0, 51, 68, 85>> }

StartCodes == {<<0, 0, 1>>, <<0, 0, 0, 1>>}

RECURSIVE UnitStreams(_)
UnitStreams(n) ==
    IF n = 0 THEN {<<>>}
    ELSE {s \o sc \o body : s \in UnitStreams(n - 1), sc \in StartCodes, body \in UnitBodies}

StructBufs == UNION {UnitStreams(n) : n \in 1 .. MaxUnits}

\* scenario 1: 00 00 01 26 01 AA BB, packet size 1500
Scenario1Buf == <<0, 0, 1, 38, 1, 170, 187>>

\* scenario 2: 4-byte start code, 2-byte header, 4000 payload bytes,
\* packet size 1000
Scenario2Buf == <<0, 0, 0, 1, 38, 1>> \o [i \in 1 .. 4000 |-> 170]

Inputs ==
    ((SeqsUpTo(PktBytes, MaxLen) \cup StructBufs) \X (4 .. MaxPktSize))
    \cup {<<Scenario1Buf, 1500>>, <<Scenario2Buf, 1000>>}

Init ==
    /\ \E in \in Inputs : buf = in[1] /\ pktsize = in[2]
    /\ align \in 0 .. 3
    /\ pc = "start"
    /\ r = 0 /\ r1 = 0 /\ marker = FALSE /\ err = 0
    /\ pbuf = 0 /\ plen = 0 /\ fu_hdr = <<0, 0, 0>>
    /\ sent = <<>> /\ units = <<>> /\ dfailed = {} /\ anyfail = FALSE
    /\ perr = 0 /\ oob = FALSE
    /\ scanpos = 0 /\ scanret = -1 /\ scanreads = {}
    /\ HelpersIdle

-----------------------------------------------------------------------------
(* h265_packetize *)

scanvars == <<scanpos, scanret, scanreads, helpervars>>

\* faulty variant: r = start, the first start code is not searched for
h265_packetize_start_NoFind ==
    /\ pc = "start"
    /\ r' = 0
    /\ pc' = "loop"
    /\ UNCHANGED <<buf, align, pktsize, r1, marker, err, pbuf, plen, fu_hdr,
                   sent, units, dfailed, anyfail, perr, oob, scanvars>>

\* r = h265_find_startcode(start, end)
h265_packetize_start ==
    /\ pc = "start"
    /\ \E bigendian \in BOOLEAN : r' = h265_find_startcode(buf, 0, align, bigendian)
    /\ pc' = "loop"
    /\ UNCHANGED <<buf, align, pktsize, r1, marker, err, pbuf, plen, fu_hdr,
                   sent, units, dfailed, anyfail, perr, oob, scanvars>>

\* faulty variant: the zero bytes that follow the 01 are skipped as well
SkipZeros_Padding(b, p) ==
    LET nz == {q \in p .. (Len(b) - 1) : Byte(b, q) # 0}
        nz2 == {q \in (SetMin(nz) + 1) .. (Len(b) - 1) : Byte(b, q) # 0}
    IN  IF nz = {} THEN -1
        ELSE IF nz2 = {} THEN Len(b)
        ELSE SetMin(nz2)

\* while (!*(r++)) ; -- the offset r ends at, or -1 when the loop runs off
\* the end of the buffer
SkipZeros(b, p) ==
    LET nz == {q \in p .. (Len(b) - 1) : Byte(b, q) # 0}
    IN  IF nz = {} THEN -1 ELSE SetMin(nz) + 1

\* faulty variant: marker = (r1 > end)
unit_marker_Strict(b, rn) == rn > Len(b)

\* marker = (r1 >= end)
unit_marker(b, rn) == rn >= Len(b)

\* one iteration of while (r < end) up to the call of packetize
h265_packetize_unit ==
    /\ pc = "loop"
    /\ r < Len(buf)
    /\ IF SkipZeros(buf, r) = -1
       THEN /\ oob' = TRUE
            /\ pc' = "done"
            /\ UNCHANGED <<r, r1, marker, pbuf, plen, perr, units>>
       ELSE \E bigendian \in BOOLEAN :
              LET rs == SkipZeros(buf, r)
                  rn == h265_find_startcode(buf, rs, align, bigendian)
              IN  /\ r' = rs
                  /\ r1' = rn
                  /\ marker' = unit_marker(buf, rn)
                  /\ pbuf' = rs
                  /\ plen' = rn - rs
                  /\ perr' = 0
                  /\ units' = Append(units, [off |-> rs, len |-> rn - rs])
                  /\ pc' = "packetize"
                  /\ oob' = oob
    /\ UNCHANGED <<buf, align, pktsize, err, fu_hdr, sent, dfailed, anyfail, scanvars>>

\* faulty variant: while (r < end && !err), the call stops at the first failure
h265_packetize_done_OnError ==
    /\ pc = "loop"
    /\ (r >= Len(buf) \/ err # 0)
    /\ pc' = "done"
    /\ UNCHANGED <<buf, align, pktsize, r, r1, marker, err, pbuf, plen, fu_hdr,
                   sent, units, dfailed, anyfail, perr, oob, scanvars>>

\* while (r < end) is false: return err
h265_packetize_done ==
    /\ pc = "loop"
    /\ r >= Len(buf)
    /\ pc' = "done"
    /\ UNCHANGED <<buf, align, pktsize, r, r1, marker, err, pbuf, plen, fu_hdr,
                   sent, units, dfailed, anyfail, perr, oob, scanvars>>

-----------------------------------------------------------------------------
(* packetize *)

\* one call of pkth
Packet(m, hdr, off, len) ==
    [marker |-> m, hdr |-> hdr, off |-> off, len |-> len, unit |-> Len(units)]

\* faulty variant: the fragment length leaves room for 2 header bytes only
flen_TwoByteHeader == pktsize - 2

\* const size_t flen = maxlen - sizeof(fu_hdr)
flen == pktsize - 3

\* faulty variant: if (len < maxlen)
fits_Strict(len, maxlen) == len < maxlen

\* if (len <= maxlen): the unit goes out as one packet
fits(len, maxlen) == len <= maxlen

\* faulty variant: an empty unit is dropped without a call of pkth
packetize_single_SkipEmpty ==
    /\ pc = "packetize"
    /\ fits(plen, pktsize)
    /\ IF plen = 0
       THEN /\ perr' = 0
            /\ UNCHANGED <<sent, err, anyfail>>
       ELSE \E ret \in SinkRets :
              /\ sent' = Append(sent, Packet(marker, <<>>, pbuf, plen))
              /\ perr' = ret
              /\ err' = BitOr(err, ret)
              /\ anyfail' = (anyfail \/ ret # 0)
    /\ r' = r1
    /\ pc' = "loop"
    /\ UNCHANGED <<buf, align, pktsize, r1, marker, pbuf, plen, fu_hdr,
                   units, dfailed, oob, scanvars>>

\* if (len <= maxlen) err = pkth(marker, rtp_ts, NULL, 0, buf, len, arg);
\* return err; then err |= ...; r = r1 in the caller
packetize_single ==
    /\ pc = "packetize"
    /\ fits(plen, pktsize)
    /\ \E ret \in SinkRets :
         /\ sent' = Append(sent, Packet(marker, <<>>, pbuf, plen))
         /\ perr' = ret
         /\ err' = BitOr(err, ret)
         /\ anyfail' = (anyfail \/ ret # 0)
    /\ r' = r1
    /\ pc' = "loop"
    /\ UNCHANGED <<buf, align, pktsize, r1, marker, pbuf, plen, fu_hdr,
                   units, dfailed, oob, scanvars>>

\* faulty variant: a decode error ends the whole h265_packetize call
packetize_decode_fail_AbortCall ==
    /\ pc = "packetize"
    /\ ~fits(plen, pktsize)
    /\ \E derr \in DecodeErrs \ {0} :
         /\ perr' = derr
         /\ err' = BitOr(err, derr)
    /\ dfailed' = dfailed \cup {Len(units)}
    /\ pc' = "done"
    /\ UNCHANGED <<buf, align, pktsize, r, r1, marker, pbuf, plen, fu_hdr,
                   sent, units, anyfail, oob, scanvars>>

\* err = h265_nal_decode(&nal, buf); if (err) return err;
packetize_decode_fail ==
    /\ pc = "packetize"
    /\ ~fits(plen, pktsize)
    /\ \E derr \in DecodeErrs \ {0} :
         /\ perr' = derr
         /\ err' = BitOr(err, derr)
    /\ dfailed' = dfailed \cup {Len(units)}
    /\ r' = r1
    /\ pc' = "loop"
    /\ UNCHANGED <<buf, align, pktsize, r1, marker, pbuf, plen, fu_hdr,
                   sent, units, anyfail, oob, scanvars>>

\* decode succeeded: build fu_hdr (Start bit set), buf += 2, len -= 2
packetize_decode_ok ==
    /\ pc = "packetize"
    /\ ~fits(plen, pktsize)
    /\ 0 \in DecodeErrs
    /\ perr' = 0
    /\ fu_hdr' = h265_nal_encode(H265_NAL_FU, nuh_temporal_id_plus1(Byte(buf, pbuf + 1)))
                 \o <<BitOr(128, nal_unit_type(Byte(buf, pbuf)))>>
    /\ pbuf' = pbuf + 2
    /\ plen' = plen - 2
    /\ pc' = "fragment"
    /\ UNCHANGED <<buf, align, pktsize, r, r1, marker, err,
                   sent, units, dfailed, anyfail, oob, scanvars>>

\* faulty variant: the Start bit is not cleared after the first fragment
packetize_fragment_KeepStart ==
    /\ pc = "fragment"
    /\ plen > flen
    /\ \E ret \in SinkRets :
         /\ sent' = Append(sent, Packet(FALSE, fu_hdr, pbuf, flen))
         /\ perr' = BitOr(perr, ret)
         /\ anyfail' = (anyfail \/ ret # 0)
    /\ pbuf' = pbuf + flen
    /\ plen' = plen - flen
    /\ UNCHANGED <<buf, align, pktsize, pc, r, r1, marker, err, fu_hdr,
                   units, dfailed, oob, scanvars>>

\* faulty variant: buf += flen is missing
packetize_fragment_NoAdvance ==
    /\ pc = "fragment"
    /\ plen > flen
    /\ \E ret \in SinkRets :
         /\ sent' = Append(sent, Packet(FALSE, fu_hdr, pbuf, flen))
         /\ perr' = BitOr(perr, ret)
         /\ anyfail' = (anyfail \/ ret # 0)
    /\ plen' = plen - flen
    /\ fu_hdr' = [fu_hdr EXCEPT ![3] = BitAnd(@, 127)]
    /\ UNCHANGED <<buf, align, pktsize, pc, r, r1, marker, err, pbuf,
                   units, dfailed, oob, scanvars>>

\* faulty variant: len -= flen is missing
packetize_fragment_KeepLen ==
    /\ pc = "fragment"
    /\ plen > flen
    /\ \E ret \in SinkRets :
         /\ sent' = Append(sent, Packet(FALSE, fu_hdr, pbuf, flen))
         /\ perr' = BitOr(perr, ret)
         /\ anyfail' = (anyfail \/ ret # 0)
    /\ pbuf' = pbuf + flen
    /\ fu_hdr' = [fu_hdr EXCEPT ![3] = BitAnd(@, 127)]
    /\ UNCHANGED <<buf, align, pktsize, pc, r, r1, marker, err, plen,
                   units, dfailed, oob, scanvars>>

\* faulty variant: while (len >= flen)
packetize_fragment_Inclusive ==
    /\ pc = "fragment"
    /\ plen >= flen
    /\ \E ret \in SinkRets :
         /\ sent' = Append(sent, Packet(FALSE, fu_hdr, pbuf, flen))
         /\ perr' = BitOr(perr, ret)
         /\ anyfail' = (anyfail \/ ret # 0)
    /\ pbuf' = pbuf + flen
    /\ plen' = plen - flen
    /\ fu_hdr' = [fu_hdr EXCEPT ![3] = BitAnd(@, 127)]
    /\ UNCHANGED <<buf, align, pktsize, pc, r, r1, marker, err,
                   units, dfailed, oob, scanvars>>

\* one iteration of while (len > flen)
packetize_fragment ==
    /\ pc = "fragment"
    /\ plen > flen
    /\ \E ret \in SinkRets :
         /\ sent' = Append(sent, Packet(FALSE, fu_hdr, pbuf, flen))
         /\ perr' = BitOr(perr, ret)
         /\ anyfail' = (anyfail \/ ret # 0)
    /\ pbuf' = pbuf + flen
    /\ plen' = plen - flen
    /\ fu_hdr' = [fu_hdr EXCEPT ![3] = BitAnd(@, 127)]
    /\ UNCHANGED <<buf, align, pktsize, pc, r, r1, marker, err,
                   units, dfailed, oob, scanvars>>

\* faulty variant: fu_hdr[2] |= 1<<6 is missing
packetize_last_NoEnd ==
    /\ pc = "fragment"
    /\ plen <= flen
    /\ \E ret \in SinkRets :
         /\ sent' = Append(sent, Packet(marker, fu_hdr, pbuf, plen))
         /\ perr' = BitOr(perr, ret)
         /\ err' = BitOr(err, BitOr(perr, ret))
         /\ anyfail' = (anyfail \/ ret # 0)
    /\ r' = r1
    /\ pc' = "loop"
    /\ UNCHANGED <<buf, align, pktsize, r1, marker, pbuf, plen, fu_hdr,
                   units, dfailed, oob, scanvars>>

\* the loop is over: set the End bit, send the last fragment, return err;
\* then err |= ...; r = r1 in the caller
packetize_last ==
    /\ pc = "fragment"
    /\ plen <= flen
    /\ fu_hdr' = [fu_hdr EXCEPT ![3] = BitOr(@, 64)]
    /\ \E ret \in SinkRets :
         /\ sent' = Append(sent, Packet(marker, fu_hdr', pbuf, plen))
         /\ perr' = BitOr(perr, ret)
         /\ err' = BitOr(err, BitOr(perr, ret))
         /\ anyfail' = (anyfail \/ ret # 0)
    /\ r' = r1
    /\ pc' = "loop"
    /\ UNCHANGED <<buf, align, pktsize, r1, marker, pbuf, plen,
                   units, dfailed, oob, scanvars>>

Next ==
    \/ h265_packetize_start
    \/ h265_packetize_unit
    \/ h265_packetize_done
    \/ packetize_single
    \/ packetize_decode_fail
    \/ packetize_decode_ok
    \/ packetize_fragment
    \/ packetize_last

Spec == Init /\ [][Next]_vars

-----------------------------------------------------------------------------
(* Reference definitions used by the properties: a byte-wise linear scan,  *)
(* the units it delimits and the packets expected for them.                *)

Done == pc = "done"

\* the payload bytes handed to pkth in one call
Payload(pkt) == SubSeq(buf, pkt.off + 1, pkt.off + pkt.len)

\* indexes into sent of the packets made for unit u
PacketsOf(u) == {i \in 1 .. Len(sent) : sent[i].unit = u}

\* Start and End bits of a fragmentation header
StartBit(hdr) == (hdr[3] \div 128) % 2

EndBit(hdr) == (hdr[3] \div 64) % 2

\* first 00 00 01 at p <= q < end - 3, else end
NaiveFind(b, p) ==
    LET h == {q \in p .. (Len(b) - 4) : b[q + 1] = 0 /\ b[q + 2] = 0 /\ b[q + 3] = 1}
    IN  IF h = {} THEN Len(b) ELSE SetMin(h)

\* the units of a buffer: each starts 3 bytes after a start code and runs
\* to the next start code, or to the end of the buffer
RECURSIVE RefUnitsFrom(_, _)
RefUnitsFrom(b, sc) ==
    IF sc >= Len(b) THEN <<>>
    ELSE LET nx == NaiveFind(b, sc + 3)
         IN  <<[off |-> sc + 3, len |-> nx - (sc + 3)]>> \o RefUnitsFrom(b, nx)

RefUnits(b) == RefUnitsFrom(b, NaiveFind(b, 0))

\* number of fragments of a unit of n bytes for packet size m
RefFragments(n, m) == ((n - 2) + (m - 3) - 1) \div (m - 3)

\* the packets expected for unit number idx
RefUnitPackets(b, u, idx, last, m) ==
    IF u.len <= m
    THEN <<[marker |-> last, hdr |-> <<>>, off |-> u.off, len |-> u.len, unit |-> idx]>>
    ELSE LET n == RefFragments(u.len, m)
             type == (b[u.off + 1] \div 2) % 64
             tid == b[u.off + 2] % 8
         IN  [k \in 1 .. n |->
                [marker |-> last /\ k = n,
                 hdr |-> <<98, tid, type + (IF k = 1 THEN 128 ELSE 0)
                                         + (IF k = n THEN 64 ELSE 0)>>,
                 off |-> u.off + 2 + (k - 1) * (m - 3),
                 len |-> IF k < n THEN m - 3 ELSE (u.len - 2) - (n - 1) * (m - 3),
                 unit |-> idx]]

\* the packets expected for units idx.. of us, those in failed left out
RECURSIVE RefPacketsFrom(_, _, _, _, _)
RefPacketsFrom(b, us, idx, m, failed) ==
    IF idx > Len(us) THEN <<>>
    ELSE (IF idx \in failed THEN <<>>
          ELSE RefUnitPackets(b, us[idx], idx, idx = Len(us), m))
         \o RefPacketsFrom(b, us, idx + 1, m, failed)

ExpectedPackets(failed) == RefPacketsFrom(buf, RefUnits(buf), 1, pktsize, failed)

RECURSIVE ConcatPayloads(_, _)
ConcatPayloads(u, i) ==
    IF i > Len(sent) THEN <<>>
    ELSE (IF sent[i].unit = u THEN Payload(sent[i]) ELSE <<>>) \o ConcatPayloads(u, i + 1)

-----------------------------------------------------------------------------
(* Properties *)

\* C1: every packet handed to the sink fits the packet size: a single-unit
\* packet has no fragmentation header, a fragment has a 3-byte one, and
\* header length + payload length <= max_packet_size (max_packet_size > 3).
C1_PacketsFit ==
    \A i \in 1 .. Len(sent) :
        /\ Len(sent[i].hdr) \in {0, 3}
        /\ Len(sent[i].hdr) + sent[i].len <= pktsize

\* C1 witness: a run that sent a full-size fragment and a single-unit packet
C1_Witness ==
    /\ Done
    /\ \E i \in 1 .. Len(sent) : Len(sent[i].hdr) = 3 /\ sent[i].len + 3 = pktsize
    /\ \E i \in 1 .. Len(sent) : Len(sent[i].hdr) = 0 /\ sent[i].len > 0

\* C2: for every unit longer than max_packet_size whose header decoded, the
\* payloads of its fragments, concatenated in emission order, are exactly
\* the unit's bytes after its 2-byte header.
C2_Reassembly ==
    Done =>
        \A u \in 1 .. Len(units) :
            (units[u].len > pktsize /\ u \notin dfailed) =>
                ConcatPayloads(u, 1) =
                    SubSeq(buf, units[u].off + 3, units[u].off + units[u].len)

\* C2 witness: a finished run that split a unit into at least 3 fragments
C2_Witness ==
    /\ Done
    /\ \E u \in 1 .. Len(units) :
         units[u].len > pktsize /\ Cardinality(PacketsOf(u)) >= 3

\* C3 as stated: exactly the packets of the last unit carry the marker.
C3_Original ==
    Done => \A i \in 1 .. Len(sent) : sent[i].marker <=> (sent[i].unit = Len(units))

\* C3 (amended): exactly the last packet made for the last unit carries
\* marker = true; every other packet, the earlier fragments of the last
\* unit included, carries marker = false.
C3_MarkerPlacement ==
    Done =>
        \A i \in 1 .. Len(sent) :
            sent[i].marker <=>
                (sent[i].unit = Len(units) /\ \A j \in (i + 1) .. Len(sent) : sent[j].unit # sent[i].unit)

\* C3 witness: two units, the last one fragmented, its End fragment marked
C3_Witness ==
    /\ Done
    /\ Len(units) >= 2
    /\ Cardinality(PacketsOf(Len(units))) >= 2
    /\ PacketsOf(1) # {}
    /\ sent[Len(sent)].marker

\* C4 as stated: the scanner returns the first 00 00 01 lying entirely inside
\* the buffer at or after pos (start positions pos .. end - 3), else end.
C4_FindsEveryStartCode ==
    pc = "scanned" =>
        LET h == {q \in scanpos .. (Len(buf) - 3) :
                    buf[q + 1] = 0 /\ buf[q + 2] = 0 /\ buf[q + 3] = 1}
        IN  scanret = (IF h = {} THEN Len(buf) ELSE SetMin(h))

\* C5: every byte offset the scanner reads lies in [pos, end), for every
\* buffer length, start position and alignment; a buffer shorter than 3
\* bytes, or without any 00 00 01 at or after pos, yields end.
C5_ScannerReads ==
    pc = "scanned" =>
        /\ scanreads \subseteq scanpos .. (Len(buf) - 1)
        /\ (   Len(buf) < 3
            \/ ~\E q \in scanpos .. (Len(buf) - 3) :
                   buf[q + 1] = 0 /\ buf[q + 2] = 0 /\ buf[q + 3] = 1)
           => scanret = Len(buf)

\* C5 witness: a scan of several words that ran all three loops to the end
C5_Witness ==
    /\ pc = "scanned"
    /\ Len(buf) >= 10
    /\ scanpos \in scanreads
    /\ (Len(buf) - 2) \in scanreads
    /\ scanret = Len(buf)

\* C6: an empty buffer, or one in which the scanner finds no start code,
\* gives zero sink calls and result 0.
C6_NoInput ==
    (Done /\ NaiveFind(buf, 0) = Len(buf)) => (sent = <<>> /\ err = 0)

\* C6 witness: a finished run on a 3-byte buffer without a start code
C6_Witness == Done /\ buf = <<170, 170, 170>> /\ sent = <<>> /\ err = 0

\* C7: a unit whose length (header included) is <= max_packet_size goes
\* out as exactly one packet: no fragmentation header, the unit's raw bytes
\* as payload, marker set iff the unit is the last one.  Scenario 1:
\* 00 00 01 26 01 AA BB with size 1500 gives one packet, marker = true,
\* payload 26 01 AA BB.
C7_SingleUnitForm ==
    Done =>
        /\ \A u \in 1 .. Len(units) :
             units[u].len <= pktsize =>
                \E i \in 1 .. Len(sent) :
                    /\ PacketsOf(u) = {i}
                    /\ sent[i].hdr = <<>>
                    /\ sent[i].off = units[u].off
                    /\ sent[i].len = units[u].len
                    /\ sent[i].marker = (u = Len(units))
        /\ (pktsize = 1500 /\ buf = Scenario1Buf) =>
                /\ Len(sent) = 1
                /\ sent[1].marker
                /\ sent[1].hdr = <<>>
                /\ Payload(sent[1]) = <<38, 1, 170, 187>>

\* C7 witness: scenario 1 has run to its end
C7_Witness ==
    Done /\ pktsize = 1500 /\ buf = Scenario1Buf /\ Len(sent) = 1

\* the Start/End flags of scenario 2's packets, n packets being expected
Scenario2Flags(n) ==
    /\ Len(sent) = n
    /\ \A i \in 1 .. Len(sent) : Len(sent[i].hdr) = 3
    /\ StartBit(sent[1].hdr) = 1 /\ EndBit(sent[1].hdr) = 0
    /\ \A i \in 2 .. (n - 1) : StartBit(sent[i].hdr) = 0 /\ EndBit(sent[i].hdr) = 0
    /\ EndBit(sent[n].hdr) = 1
    /\ sent[n].marker

Scenario2Done ==
    Done /\ pktsize = 1000 /\ buf = Scenario2Buf /\ dfailed = {}

\* C8 as stated: scenario 2 produces exactly 4 packets.
C8_Original == Scenario2Done => Scenario2Flags(4)

\* C8 (amended): scenario 2 (header decoded) produces exactly 5 packets:
\* the first with Start=1, End=0, the three middle ones with Start=0,
\* End=0, the last with End=1 and marker = true.
C8_Scenario2 == Scenario2Done => Scenario2Flags(5)

\* C8 witness: scenario 2 has run to its end with 5 packets sent
C8_Witness == Scenario2Done /\ Len(sent) = 5

\* C9: the packets handed to the sink do not depend on what the sink
\* returns (they are the packets expected for the buffer, whatever was
\* returned), and the result is non-zero iff some sink call returned
\* non-zero or a header decode failed.
C9_BestEffort ==
    Done =>
        /\ sent = ExpectedPackets(dfailed)
        /\ (err # 0) <=> (anyfail \/ dfailed # {})

\* C9 witness: a sink call failed in an earlier unit and the last unit was
\* still packetized, without failure
C9_Witness ==
    /\ Done
    /\ anyfail
    /\ perr = 0
    /\ Len(units) >= 2
    /\ PacketsOf(Len(units)) # {}

\* C10: a unit selected for fragmentation whose header decode fails gets no
\* packet at all, the result is non-zero, and every other unit gets the
\* packets it would get otherwise.
C10_MalformedUnit ==
    Done =>
        /\ \A u \in dfailed : PacketsOf(u) = {} /\ units[u].len > pktsize
        /\ dfailed # {} => err # 0
        /\ Len(units) = Len(RefUnits(buf))
        /\ \A u \in (1 .. Len(units)) \ dfailed :
             LET OfUnit(p) == p.unit = u
             IN  SelectSeq(sent, OfUnit) =
                   RefUnitPackets(buf, RefUnits(buf)[u], u, u = Len(units), pktsize)

\* C10 witness: the decode failed on a unit between two units that were
\* both packetized
C10_Witness ==
    /\ Done
    /\ \E u \in dfailed :
         /\ u > 1 /\ u < Len(units)
         /\ PacketsOf(u - 1) # {}
         /\ PacketsOf(u + 1) # {}

\* the offset at which the start code ending unit u begins: one byte before
\* the 00 00 01 when that byte is a zero of the unit (the 4-byte form)
ExtentEnd(b, u) ==
    LET nx == u.off + u.len
    IN  IF nx < Len(b) /\ nx > u.off /\ b[nx] = 0 THEN nx - 1 ELSE nx

\* C11 as stated: the bytes emitted for a unit run from just after its own
\* start code up to, but excluding, the next start code in its 3-byte or
\* 4-byte form, so the leading zero of a following 00 00 00 01 is not emitted.
C11_UnitExtent ==
    Done =>
        /\ Len(units) = Len(RefUnits(buf))
        /\ \A u \in 1 .. Len(units) :
             LET ref == RefUnits(buf)[u]
                 fragmented == \E i \in PacketsOf(u) : sent[i].hdr # <<>>
             IN  /\ units[u].off = ref.off
                 /\ units[u].off + units[u].len = ExtentEnd(buf, ref)
                 /\ PacketsOf(u) # {} =>
                        ConcatPayloads(u, 1) =
                            SubSeq(buf, ref.off + 1 + (IF fragmented THEN 2 ELSE 0),
                                   ExtentEnd(buf, ref))

\* the call runs to its return: the code is sequential, and the sink and
\* the header decoder return
LiveInputs ==
    ((SeqsUpTo(PktBytes, MaxLiveLen) \cup UNION {UnitStreams(n) : n \in 1 .. MaxLiveUnits})
       \X (4 .. MaxPktSize))
    \cup {<<Scenario1Buf, 1500>>}

InitLive ==
    /\ \E in \in LiveInputs : buf = in[1] /\ pktsize = in[2]
    /\ align \in {0, 3}
    /\ pc = "start"
    /\ r = 0 /\ r1 = 0 /\ marker = FALSE /\ err = 0
    /\ pbuf = 0 /\ plen = 0 /\ fu_hdr = <<0, 0, 0>>
    /\ sent = <<>> /\ units = <<>> /\ dfailed = {} /\ anyfail = FALSE
    /\ perr = 0 /\ oob = FALSE
    /\ scanpos = 0 /\ scanret = -1 /\ scanreads = {}
    /\ HelpersIdle

SpecLive == InitLive /\ [][Next]_vars /\ WF_vars(Next)

\* C13: with max_packet_size > 3 the call terminates; every pass of the
\* unit loop moves r forward (the skip of the start code strictly, the
\* return from packetize never backward), every pass of the fragment loop
\* strictly decreases the remaining length, and the number of sink calls
\* never exceeds the buffer length.
C13_Terminates ==
    /\ <>Done
    /\ [][/\ (pc = "loop" /\ pc' = "packetize") => r' > r
          /\ (pc \in {"packetize", "fragment"} /\ pc' = "loop") =>
                 r' >= r /\ r' = r1 /\ r' <= Len(buf)
          /\ (pc = "fragment" /\ pc' = "fragment") =>
                 plen' < plen /\ plen' > 0]_vars
    /\ [](pktsize > 3 /\ Len(sent) <= Len(buf))

\* a finished call with two units, one of them sent as three or more fragments
C13_Witness ==
    /\ Done
    /\ Len(units) >= 2
    /\ \E u \in 1 .. Len(units) :
         Cardinality({i \in PacketsOf(u) : sent[i].hdr # <<>>}) >= 3

\* C14: the sink calls of one h265_packetize call are in buffer order:
\* for any two calls, the earlier payload range ends at or before the start
\* of the later one, the start offsets strictly increase, and the earlier
\* call belongs to the same or an earlier unit.
C14_BufferOrder ==
    \A i, j \in 1 .. Len(sent) :
        i < j =>
            /\ sent[i].off + sent[i].len <= sent[j].off
            /\ sent[i].off < sent[j].off
            /\ sent[i].unit <= sent[j].unit

\* a finished call on three units, the middle one fragmented, the others not
C14_Witness ==
    /\ Done
    /\ Len(units) = 3
    /\ \A u \in 1 .. 3 : PacketsOf(u) # {}
    /\ Cardinality(PacketsOf(2)) >= 2
    /\ Cardinality(PacketsOf(1)) = 1
    /\ Cardinality(PacketsOf(3)) = 1

\* the sink calls of unit u that carry a fragmentation header
FragmentsOf(u) == {i \in PacketsOf(u) : sent[i].hdr # <<>>}

\* C16: in the fragments of one unit the first has Start=1 and End=0, the
\* last Start=0 and End=1, those in between Start=0 and End=0; only the
\* last may carry the marker; header bytes 0-1 are the same in all of them
\* (type 49, the unit's temporal_id_plus1), and the low 6 bits of byte 2
\* are the unit's own type.
C16_FragmentFlags ==
    Done =>
        \A u \in 1 .. Len(units) :
            LET fr == FragmentsOf(u)
                first == SetMin(fr)
                last == CHOOSE i \in fr : \A j \in fr : j <= i
                b0 == Byte(buf, units[u].off)
                b1 == Byte(buf, units[u].off + 1)
            IN  fr # {} =>
                  /\ first # last
                  /\ \A i \in fr :
                       /\ StartBit(sent[i].hdr) = (IF i = first THEN 1 ELSE 0)
                       /\ EndBit(sent[i].hdr) = (IF i = last THEN 1 ELSE 0)
                       /\ i # last => ~sent[i].marker
                       /\ SubSeq(sent[i].hdr, 1, 2) =
                              h265_nal_encode(H265_NAL_FU, nuh_temporal_id_plus1(b1))
                       /\ sent[i].hdr[1] = 98
                       /\ sent[i].hdr[3] % 64 = nal_unit_type(b0)

\* a finished call in which a unit went out as three or more fragments and
\* the last of them carries the marker
C16_Witness ==
    /\ Done
    /\ \E u \in 1 .. Len(units) :
         /\ Cardinality(FragmentsOf(u)) >= 3
         /\ \E i \in FragmentsOf(u) : sent[i].marker

\* C17: a unit of length L > M = max_packet_size > 3 whose header decodes
\* goes out as ceil((L-2)/(M-3)) >= 2 fragments; every fragment but the
\* last carries exactly M-3 payload bytes (M with its 3-byte header), the
\* last one between 1 and M-3.
C17_FragmentSizes ==
    Done =>
        \A u \in 1 .. Len(units) :
            LET fr == FragmentsOf(u)
                L == units[u].len
                M == pktsize
                last == CHOOSE i \in fr : \A j \in fr : j <= i
            IN  /\ (L > M /\ u \notin dfailed) <=> fr # {}
                /\ fr # {} =>
                      /\ M > 3
                      /\ fr = PacketsOf(u)
                      /\ Cardinality(fr) >= 2
                      /\ Cardinality(fr) * (M - 3) >= L - 2
                      /\ (Cardinality(fr) - 1) * (M - 3) < L - 2
                      /\ \A i \in fr \ {last} :
                           sent[i].len = M - 3 /\ Len(sent[i].hdr) + sent[i].len = M
                      /\ sent[last].len >= 1
                      /\ sent[last].len <= M - 3

\* a finished call with a unit whose last fragment is full (L-2 a multiple
\* of M-3) and a unit whose last fragment is shorter than the others
C17_Witness ==
    /\ Done
    /\ \E u, v \in 1 .. Len(units) :
         /\ FragmentsOf(u) # {} /\ FragmentsOf(v) # {}
         /\ pktsize - 3 > 1
         /\ \A i \in FragmentsOf(u) : sent[i].len = pktsize - 3
         /\ \E i \in FragmentsOf(v) : sent[i].len < pktsize - 3

\* C18: for every buffer, start position and alignment (and either byte
\* order of the word load) the three-phase scanner returns what the plain
\* byte-wise scan over the same range p <= q < end - 3 returns.
C18_ScannerEquivalence ==
    pc = "scanned" => scanret = NaiveFind(buf, scanpos)

\* the word loop returned a match that straddles a word boundary: it
\* starts at sub-position 2 or 3 of the word probed
C18_Witness ==
    /\ pc = "scanned"
    /\ Phase1Hits(buf, scanpos, align) = {}
    /\ Phase2Hits(buf, scanpos, align, TRUE) # {}
    /\ scanret - SetMin(Phase2Hits(buf, scanpos, align, TRUE)) \in {2, 3}
    /\ Cardinality(Phase2Iter(buf, scanpos, align)) >= 2

\* C19: when the unit loop is entered with r < end, r is at a 00 00 01
\* the scanner matched; the skip loop reads r, r+1, r+2 only, all below
\* end, and leaves r advanced by exactly 3, at most end - 1, whatever
\* bytes follow the 01.
C19_SkipStartCode ==
    [][(pc = "loop" /\ r < Len(buf)) =>
          /\ Match3(buf, r)
          /\ r' = r + 3
          /\ r' <= Len(buf) - 1
          /\ ~oob'
          /\ pc' = "packetize"]_vars

\* the second unit has been located and begins with a zero byte, which the
\* skip loop left in the unit
C19_Witness ==
    /\ pc = "packetize"
    /\ Len(units) = 2
    /\ ~oob
    /\ r < Len(buf)
    /\ buf[r + 1] = 0
    /\ plen > 0

\* C20: two start codes directly adjacent, with at least one byte after the
\* second: the empty unit between them is located, costs one sink call with
\* a zero-length payload, no fragmentation header and marker = false, is
\* not a decode failure, reads nothing out of bounds, adds no error unless
\* the sink reports one, and the following unit is processed after it.
C20_EmptyUnit ==
    Done =>
        /\ ~oob
        /\ (~anyfail /\ dfailed = {}) => err = 0
        /\ \A q \in 0 .. (Len(buf) - 7) :
             (Match3(buf, q) /\ Match3(buf, q + 3)) =>
                 \E u \in 1 .. Len(units) : units[u].off = q + 3 /\ units[u].len = 0
        /\ \A u \in 1 .. Len(units) :
             units[u].len = 0 =>
                 /\ u \notin dfailed
                 /\ u < Len(units)
                 /\ units[u + 1].off = units[u].off + 3
                 /\ PacketsOf(u + 1) # {} \/ (u + 1) \in dfailed
                 /\ Cardinality(PacketsOf(u)) = 1
                 /\ \A i \in PacketsOf(u) :
                      /\ sent[i].len = 0
                      /\ sent[i].hdr = <<>>
                      /\ ~sent[i].marker
                      /\ sent[i].off = units[u].off

\* a finished call on 00 00 01 00 00 01 followed by more bytes: the first
\* unit is empty, the second is not, and no sink call failed
C20_Witness ==
    /\ Done
    /\ Len(buf) >= 7
    /\ SubSeq(buf, 1, 6) = <<0, 0, 1, 0, 0, 1>>
    /\ Len(units) >= 2
    /\ units[1].len = 0
    /\ units[2].len > 0
    /\ err = 0

-----------------------------------------------------------------------------
(* h265_skip_startcode and h265_have_startcode *)

sc3 == <<0, 0, 1>>

sc4 == <<0, 0, 0, 1>>

\* memcmp(p, sc, Len(sc)) == 0
memcmp0(b, p, sc) == \A i \in 1 .. Len(sc) : Byte(b, p + i - 1) = sc[i]

\* h265_skip_startcode(&p, &n): the values of *p and *n after the call
h265_skip_startcode(b, p, n) ==
    IF n < 4 THEN [p |-> p, n |-> n]
    ELSE IF memcmp0(b, p, sc4) THEN [p |-> p + 4, n |-> n - 4]
    ELSE IF memcmp0(b, p, sc3) THEN [p |-> p + 3, n |-> n - 3]
    ELSE [p |-> p, n |-> n]

\* h265_have_startcode(p, len)
h265_have_startcode(b, p, len) ==
    \/ len >= 4 /\ memcmp0(b, p, sc4)
    \/ len >= 3 /\ memcmp0(b, p, sc3)

\* the harness: one call of each on the same position and length; the length
\* handed in is at most what the buffer holds after the position
SkipBytes == {0, 1, 2}

InitSkip ==
    /\ buf \in SeqsUpTo(SkipBytes, MaxSkipLen)
    /\ scanpos \in 0 .. Len(buf)
    /\ skn0 \in 0 .. Len(buf) - scanpos
    /\ pc = "skip"
    /\ skp = scanpos /\ skn = skn0 /\ have = FALSE
    /\ ktype = 0 /\ iskey = FALSE
    /\ align = 0 /\ scanret = -1 /\ scanreads = {}
    /\ pktsize = 0 /\ r = 0 /\ r1 = 0 /\ marker = FALSE /\ err = 0
    /\ pbuf = 0 /\ plen = 0 /\ fu_hdr = <<0, 0, 0>>
    /\ sent = <<>> /\ units = <<>> /\ dfailed = {} /\ anyfail = FALSE
    /\ perr = 0 /\ oob = FALSE

skip_call ==
    /\ pc = "skip"
    /\ skp' = h265_skip_startcode(buf, scanpos, skn0).p
    /\ skn' = h265_skip_startcode(buf, scanpos, skn0).n
    /\ have' = h265_have_startcode(buf, scanpos, skn0)
    /\ pc' = "skipped"
    /\ UNCHANGED <<buf, align, pktsize, r, r1, marker, err, pbuf, plen, fu_hdr,
                   sent, units, dfailed, anyfail, perr, oob, scanpos, scanret,
                   scanreads, skn0, ktype, iskey>>

NextSkip == skip_call

SpecSkip == InitSkip /\ [][NextSkip]_vars

\* C12 as stated: the skip is 4 on 00 00 00 01 with n >= 4, 3 on 00 00 01
\* with n >= 3 (n = 3 included), 0 otherwise, n is reduced by the skip, and
\* the skip is non-zero exactly when h265_have_startcode reports true.
C12_SkipLength ==
    pc = "skipped" =>
        LET adv == skp - scanpos
            is4 == skn0 >= 4 /\ SubSeq(buf, scanpos + 1, scanpos + 4) = sc4
            is3 == skn0 >= 3 /\ SubSeq(buf, scanpos + 1, scanpos + 3) = sc3
        IN  /\ skn = skn0 - adv
            /\ adv = (IF is4 THEN 4 ELSE IF is3 THEN 3 ELSE 0)
            /\ (adv > 0) <=> have

-----------------------------------------------------------------------------
(* h265_is_keyframe *)

H265_NAL_BLA_W_LP == 16

H265_NAL_BLA_W_RADL == 17

H265_NAL_BLA_N_LP == 18

H265_NAL_IDR_W_RADL == 19

H265_NAL_IDR_N_LP == 20

H265_NAL_CRA_NUT == 21

\* faulty variant: the case label H265_NAL_CRA_NUT is missing
h265_is_keyframe_NoCRA(type) ==
    type \in {H265_NAL_BLA_W_LP, H265_NAL_BLA_W_RADL, H265_NAL_BLA_N_LP,
              H265_NAL_IDR_W_RADL, H265_NAL_IDR_N_LP}

\* switch (type): the six case labels return true, default returns false
h265_is_keyframe(type) ==
    type \in {H265_NAL_BLA_W_LP, H265_NAL_BLA_W_RADL, H265_NAL_BLA_N_LP,
              H265_NAL_IDR_W_RADL, H265_NAL_IDR_N_LP, H265_NAL_CRA_NUT}

\* the harness: one call on any value an enum h265_naltype argument can
\* carry, the values outside 0..63 and the negative ones included
InitKey ==
    /\ ktype \in (0 - MaxKeyType) .. MaxKeyType
    /\ pc = "key"
    /\ iskey = FALSE
    /\ buf = <<>> /\ align = 0 /\ scanpos = 0 /\ scanret = -1 /\ scanreads = {}
    /\ skp = 0 /\ skn0 = 0 /\ skn = 0 /\ have = FALSE
    /\ pktsize = 0 /\ r = 0 /\ r1 = 0 /\ marker = FALSE /\ err = 0
    /\ pbuf = 0 /\ plen = 0 /\ fu_hdr = <<0, 0, 0>>
    /\ sent = <<>> /\ units = <<>> /\ dfailed = {} /\ anyfail = FALSE
    /\ perr = 0 /\ oob = FALSE

keyframe_call ==
    /\ pc = "key"
    /\ iskey' = h265_is_keyframe(ktype)
    /\ pc' = "keyed"
    /\ UNCHANGED <<buf, align, pktsize, r, r1, marker, err, pbuf, plen, fu_hdr,
                   sent, units, dfailed, anyfail, perr, oob, scanpos, scanret,
                   scanreads, skp, skn0, skn, have, ktype>>

NextKey == keyframe_call

SpecKey == InitKey /\ [][NextKey]_vars

\* C15: h265_is_keyframe returns true exactly for the types 16 through 21
\* and false for every other value, those outside 0..63 included.
C15_Keyframe ==
    pc = "keyed" => (iskey <=> (ktype >= 16 /\ ktype <= 21))

\* the call has returned true for the upper end of the range, type 21
C15_Witness == pc = "keyed" /\ ktype = 21 /\ iskey

====
